---- MODULE Spec2Model ----
(***************************************************************************)
(* Session manager (AuthProvider, withAuth), API gateway (axios instance   *)
(* with its interceptors, the services, withRetry) and pages (Dashboard,   *)
(* BookingDetailsPage, NewBookingPage, ProfilePage) of the bookings        *)
(* front-end.                                                              *)
(*                                                                         *)
(* One step of the model is one JavaScript task: a user event, the mount   *)
(* effect, or the settling of one HTTP request together with every promise *)
(* continuation that runs from it (interceptor, service catch block, the   *)
(* provider's try/catch/finally), followed by React's commit: the render   *)
(* of the guarded page and the guard's effect.                             *)
(***************************************************************************)
EXTENDS Integers, FiniteSets, Sequences, Bags, TLC

VARIABLES
    user,           \* AuthProvider state `user` (the session), or Null
    loading,        \* AuthProvider state `loading` (initializing)
    cookie,         \* js-cookie entry 'auth_token', or NoCookie
    pathname,       \* window.location.pathname
    boot,           \* position of the mount effect: "pending", "fetching", "done"
    inflight,       \* bag of HTTP requests sent and not yet settled
    sent,           \* the HTTP request sent in the last step, or NoRequest
    routerNav,      \* target of a router.push / router.replace not yet completed
    reloadPending,  \* window.location.href was assigned; the document is about to be replaced
    redirected,     \* the guard's effect called router.replace('/login') in the last step
    screen,         \* what the current route shows after the last commit
    authDone,       \* a login or register call resolved since the document was loaded
    reply,          \* the HTTP answer delivered in the last step, or NoReply
    outcome,        \* what the caller of the operation that finished in the last step observed
    call,           \* the withRetry call in progress or finished in the last step, or NoCall
    page,           \* React state of the mounted bookings page (Dashboard, BookingDetailsPage), or NoPage
    form,           \* React state of the mounted NewBookingPage, or NoForm
    admin,          \* React state of the user management of the mounted ProfilePage, or NoAdmin
    server,         \* what the server holds: the bookings, and how often the submitted booking was created
    calls,          \* bag of the service calls of the mounted page that have not resolved
    toast           \* the toast a handler showed in the last step, or NoToast

\* The state of the pages under the session manager.
pageVars == << page, form, admin, server, calls, toast >>

vars == << user, loading, cookie, pathname, boot, inflight, sent, routerNav,
           reloadPending, redirected, screen, authDone, reply, outcome, call,
           page, form, admin, server, calls, toast >>

----------------------------------------------------------------------------
(* Bounds of the model *)

MaxInflight == 2

\* The calls a page has in progress when its user starts another one.
MaxCalls == 2

(* Program constants *)

CookieDays == 30

\* withRetry: the default values of `retries` and `delay` (milliseconds).
DefaultRetries == 2
DefaultDelay == 1000

----------------------------------------------------------------------------
(* Values *)

Absent == "undefined"
NoNav == "none"

Tokens == {"t1", "t2"}
UserIds == {"u1", "u2"}
Names == {"n1", "n2"}
Emails == {"e1", "e2"}
Phones == {"p1", Absent}

\* The account a token was issued to.
Owner(t) == IF t = "t1" THEN "u1" ELSE "u2"

\* `null` and `undefined` as values of the `user` state.
Null ==
    [id |-> "null", name |-> "null", email |-> "null", role |-> "null", phone |-> "null"]
Undefined ==
    [id |-> Absent, name |-> Absent, email |-> Absent, role |-> Absent, phone |-> Absent]

User == [id : UserIds, name : Names, email : Emails,
         role : {"customer", "admin"}, phone : Phones]

\* The record the server holds for an account.
ServerUser(id) ==
    [id |-> id, name |-> "n1", email |-> "e1",
     role |-> IF id = "u2" THEN "admin" ELSE "customer", phone |-> Absent]

NoCookie == [value |-> Absent, expires |-> 0]

Paths == {"/login", "/register", "/dashboard", "/dashboard/profile"}
Guarded == {"/dashboard", "/dashboard/profile"}

\* An AxiosError; status 0 stands for "no response received".
HttpStatuses == {400, 401, 500}
AxiosErrors == [kind : {"axios"}, status : {0} \cup HttpStatuses]
TypeError == [kind |-> "TypeError", status |-> 0]
\* deleteUser: new Error('User ID is required')
RequiredError == [kind |-> "Error", status |-> 0]
NoError == [kind |-> "none", status |-> 0]

\* Bodies of a 2xx answer of POST /auth/login and POST /auth/register. The
\* code reads body.token and body.data.user, and each may be missing; a token
\* and a user record that come together belong to the same account.
AuthBodies ==
    { [token |-> t, hasData |-> h, user |-> u] :
        t \in Tokens \cup {Absent}, h \in BOOLEAN,
        u \in {Undefined} \cup {ServerUser(i) : i \in UserIds} } 

WellFormed(b) ==
    /\ ~b.hasData => b.user = Undefined
    /\ (b.token # Absent /\ b.user # Undefined) => b.user.id = Owner(b.token)

\* Bodies of a 2xx answer of GET /auth/me sent with token `auth`.
MeBodies(auth) ==
    { b \in [token : {Absent}, hasData : BOOLEAN,
             user : {Undefined, ServerUser(Owner(auth))}] : WellFormed(b) }

\* What the profile form may hold when it is submitted.
ProfileInputs ==
    { [name |-> "n2", email |-> "e1", phone |-> Absent],
      [name |-> "n1", email |-> "e2", phone |-> "p1"] }

\* A request as it leaves the client: the operation and its Authorization header.
Request(op, auth) == [op |-> op, auth |-> auth]

NoRequest == Request("none", Absent)

\* What is kept of a request until it settles. Only the answer of GET /auth/me
\* depends on the header (the server answers with the token's account).
Pending(req) == [op |-> req.op, auth |-> IF req.op = "me" THEN req.auth ELSE Absent]

Observed(op, e) == [op |-> op, error |-> e]

NoBody == [token |-> Absent, hasData |-> FALSE, user |-> Undefined]

\* An answer as the client sees it: a 2xx with its body, or an AxiosError.
Answer(r, ok, b, e) == [op |-> r.op, ok |-> ok, body |-> b, error |-> e]

NoReply == Answer(NoRequest, FALSE, NoBody, NoError)

\* No operation finished in the step.
Idle == Observed("none", NoError)

\* Service operations that go through withRetry (bookingsService.*,
\* usersAdminService.getAllUsers), and those that use the axios instance
\* without it (authService.*, the profile form's api.patch).
WrappedOps == {"getAllBookings", "getAllUsers"}
AuthOps == {"login", "register"}
DirectOps == {"login", "register", "me", "profile"}

\* What an attempt of a wrapped call may fail with: an AxiosError (no
\* response, or a status; 503 stands for the 5xx other than 500), or an error
\* that is not an AxiosError, thrown by the callback after a 2xx answer.
NetworkError == [kind |-> "axios", status |-> 0]
ServerError == [kind |-> "axios", status |-> 500]
Unavailable == [kind |-> "axios", status |-> 503]
AttemptErrors == AxiosErrors \cup {Unavailable, TypeError}

\* response.data of a 2xx answer to a wrapped call.
Results == {"d1", "d2"}
NoResult == Absent

\* The state of a withRetry call: `retries` and `delay` are the arguments of
\* the invocation in progress; attempts counts the invocations of apiCall,
\* waits lists the timeouts awaited, errors the errors caught, removed counts
\* the Cookies.remove calls its answers caused; response is what the last
\* apiCall resolved with, result and error what withRetry returned or threw.
NoCall ==
    [op |-> "none", phase |-> "idle", retries |-> 0, delay |-> 0, attempts |-> 0,
     waits |-> << >>, errors |-> << >>, removed |-> 0,
     response |-> NoResult, result |-> NoResult, error |-> NoError]

\* Bookings. A list of bookings is a function from the booking ids to the
\* status of the booking, or Gone for a booking that is not in the list.
BookingIds == {"b1", "b2"}
Statuses == {"pending", "confirmed", "cancelled"}
Gone == "gone"
NoBooking == "null"
NoBookings == [b \in BookingIds |-> Gone]

\* No bookings page is mounted. `deleted` is not state of the page: it
\* records the bookings whose deleteBooking call of the page has succeeded.
NoPage ==
    [view |-> "none", bookings |-> NoBookings, isLoading |-> TRUE, error |-> FALSE,
     showCancelConfirm |-> NoBooking, updatingStatus |-> FALSE, deleted |-> {}]

\* The NewBookingPage is not mounted. `unresolved` counts the createBooking
\* calls of the page that have not resolved.
NoForm == [loading |-> FALSE, unresolved |-> 0]

\* The _id of the rows of the user list; an id may come with white space
\* around it. A list of users gives each id the role of its row, or Gone.
ListIds == {"u1", "u2", " u2 "}
NoUsers == [i \in ListIds |-> Gone]
NoUser == "null"

\* The ProfilePage is not mounted.
NoAdmin ==
    [users |-> NoUsers, loadingUsers |-> FALSE, userToDelete |-> NoUser,
     showDeleteModal |-> FALSE, deletingUser |-> FALSE]

\* A toast: its text, and the status and the body message of the answer the
\* handler that showed it had received.
Toast(text, status, message) == [text |-> text, status |-> status, message |-> message]
NoToast == Toast("none", 0, Absent)

NoServer == [bookings |-> NoBookings, applied |-> 0]

\* The booking the details page was opened for (useParams().id), and its route.
PageId == "b1"
DetailsPath == "/dashboard/bookings/b1"

\* The user a booking belongs to: GET /bookings answers a customer with the
\* customer's own bookings and an admin with all of them.
BookingOwner(b) == IF b = "b1" THEN "u1" ELSE "u2"

\* A service call of a bookings page: `stage` is "sent" until the server has
\* dealt with it and "answered" while the answer travels; `ok` and `data` are
\* the answer (2xx or not, and the bookings of a 2xx answer to GET /bookings).
\* One call stands for all the attempts withRetry makes for it.
PageCall(op, id, status, auth) ==
    [op |-> op, id |-> id, status |-> status, auth |-> auth,
     stage |-> "sent", ok |-> FALSE, data |-> NoBookings]

\* What a call of a page may fail with, and the `message` of the error body.
PageErrors == [kind : {"axios"}, status : {0, 400, 401, 403, 404}]
Messages == {"m1", Absent}

\* The failures of a call whose catch block treats every error alike: no
\* response, or a 401, which the response interceptor acts upon.
CallErrors == [kind : {"axios"}, status : {0, 401}]

----------------------------------------------------------------------------
(* Pure helpers *)

\* Mutant: `user !== null`.
isAuthenticatedOf_Strict(u) == u # Null

\* `!!user`
isAuthenticatedOf(u) == u # Null /\ u # Undefined

isAuthenticated == isAuthenticatedOf(user)

CookiesGet(c) == c.value

\* Mutant: the mount effect does not test the token.
HasToken_Always(c) == TRUE

\* The mount effect's `if (!token)` test, negated.
HasToken(c) == CookiesGet(c) # Absent

CookiesSet(t) == [value |-> t, expires |-> CookieDays]

CookiesRemove == NoCookie

\* api.interceptors.request: the Authorization header of an outgoing request
\* ("Bearer <token>", or no header), read from the cookie when the request is sent.
RequestInterceptor(c) ==
    IF CookiesGet(c) # Absent THEN CookiesGet(c) ELSE Absent

IsAuthPage(p) == p \in {"/login", "/register"}

\* Mutant: every answer with an error status removes the cookie.
InterceptorCookie_AnyStatus(e, c) ==
    IF e.status # 0 THEN CookiesRemove ELSE c

\* api.interceptors.response, error branch: the cookie it leaves. No request
\* ever carries _retry, so the 401 branch is always taken.
InterceptorCookie(e, c) ==
    IF e.status = 401 THEN CookiesRemove ELSE c

\* api.interceptors.response, error branch: whether it assigns window.location.href.
InterceptorReload(e, p) ==
    e.status = 401 /\ ~IsAuthPage(p)

\* Mutant: the service returns the body without writing the cookie.
StoreToken_Skipped(b, c) == c

\* authService.login / authService.register, success branch: the cookie it leaves.
StoreToken(b, c) ==
    IF b.token # Absent THEN CookiesSet(b.token) ELSE c

\* authService.getCurrentUser, catch block: the cookie it leaves.
GetCurrentUserCatch(e, c) ==
    IF e.status = 401 THEN CookiesRemove ELSE c

\* Mutant: the fetched record is not put into the state.
LoadUserSession_Dropped(b, u) == u

\* loadUser, try block: the session after a 2xx answer of GET /auth/me.
LoadUserSession(b, u) ==
    IF b.hasData /\ b.user # Undefined THEN b.user ELSE u

\* Mutant: the catch block re-throws.
LoadUserCatch_Rethrows(e) == e

\* loadUser, catch block: what reaches the caller of the startup check.
LoadUserCatch(e) == NoError

\* Mutant: setLoading(false) sits in the try block, not in finally.
LoadUserFinally_OnlyOnSuccess(ok) == IF ok THEN FALSE ELSE loading

\* loadUser, finally block: the value of `loading` it leaves (ok: the try
\* block ended without an exception).
LoadUserFinally(ok) == FALSE

\* Mutant: the catch block shows the toast and does not re-throw.
ProviderCatch_Swallows(e) == NoError

\* login / register, catch block: what is thrown to the caller.
ProviderCatch(e) == e

\* Mutant: the `if (loading)` branch is missing.
ProtectedRoute_NoLoadingBranch(ld, auth) ==
    IF auth THEN "content" ELSE "nothing"

\* withAuth: what ProtectedRoute returns.
ProtectedRoute(ld, auth) ==
    IF ld THEN "placeholder"
    ELSE IF auth THEN "content" ELSE "nothing"

\* Mutant: the effect does not wait for the startup check.
GuardRedirects_IgnoresLoading(ld, auth) == ~auth

\* withAuth: the condition under which the effect calls router.replace('/login').
GuardRedirects(ld, auth) == ~ld /\ ~auth

Render(p, ld, u) ==
    IF p \in Guarded THEN ProtectedRoute(ld, isAuthenticatedOf(u)) ELSE "public"

\* React's commit after a step: the route is rendered from the new state, and
\* the guard's effect runs when the guard was just mounted or when one of its
\* dependencies (isAuthenticated, loading) changed. `nav` is the navigation
\* the step itself left with the router.
Commit(nav) ==
    LET mounted == pathname' \in Guarded
        ran == mounted /\ ( \/ pathname' # pathname
                            \/ isAuthenticatedOf(user') # isAuthenticatedOf(user)
                            \/ loading' # loading )
        redirect == ran /\ GuardRedirects(loading', isAuthenticatedOf(user'))
    IN  /\ screen' = Render(pathname', loading', user')
        /\ redirected' = redirect
        /\ routerNav' = IF redirect THEN "/login" ELSE nav

\* const isAdmin = user?.role === 'admin'
isAdminOf(u) == u.role = "admin"

isAdmin == isAdminOf(user)

\* Mutant: the success branch leaves the list as it is.
SetStatus_Kept(list, id, s) == list

\* setBookings(prev => prev.map(b => b._id === id ? {...b, status: s} : b)),
\* and setBooking(prev => prev ? {...prev, status: s} : null) of the details
\* page: a booking that is not in the list stays out of it.
SetStatus(list, id, s) ==
    [b \in BookingIds |-> IF b = id /\ list[b] # Gone THEN s ELSE list[b]]

\* setBookings(prev => prev.filter(b => b._id !== id))
RemoveBooking(list, id) == [list EXCEPT ![id] = Gone]

\* Mutant: the cancellation is sent at once.
NeedsConfirm_Never(newStatus, open, id) == FALSE

\* handleStatusChange, first branch: the cancellation is not confirmed yet.
\* On the details page showCancelConfirm is a boolean; `true` is written
\* here as the id of the page's booking and `false` as NoBooking.
NeedsConfirm(newStatus, open, id) == newStatus = "cancelled" /\ open # id

\* Mutant: the status buttons stay enabled during an update.
ButtonDisabled_Never(updating) == FALSE

\* disabled={updatingStatus} of the Confirm, Cancel and Restore buttons.
ButtonDisabled(updating) == updating

\* handleStatusChange, catch block: the text of the toast.
StatusChangeError(e, msg) ==
    IF e.status = 403 THEN "You do not have permission to update this booking"
    ELSE IF e.status = 404 THEN "Booking not found"
    ELSE "Failed to update booking status"

\* handleStatusChange, finally block: the value of updatingStatus it leaves.
StatusChangeFinally(ok) == FALSE

\* What GET /bookings answers to user u.
BookingsOf(u, list) ==
    [b \in BookingIds |->
        IF isAdminOf(u) \/ BookingOwner(b) = u.id THEN list[b] ELSE Gone]

\* fetchBookings / fetchBooking, try block: the list the page keeps. The
\* details page keeps the booking with its id only.
Fetched(view, data) ==
    IF view = "list" THEN data
    ELSE [b \in BookingIds |-> IF b = PageId THEN data[b] ELSE Gone]

\* The page takes user events: its mount effect has run, and the document is
\* not being replaced (after an assignment to window.location.href only the
\* requests already sent may still settle before the new document loads).
Interactive == boot # "pending" /\ ~reloadPending

Take(r) == inflight (-) SetToBag({r})

Send(req) == inflight (+) SetToBag({Pending(req)})

\* axios.isAxiosError
isAxiosError(e) == e.kind = "axios"

\* Mutant: no error is retried.
RetryAllowed_Never(retries, e) == FALSE

\* Mutant: the budget test lets one more retry through.
RetryAllowed_OneMore(retries, e) ==
    /\ ~(retries < 0)
    /\ ~( ~isAxiosError(e) \/ (e.status # 0 /\ e.status # 500) )

\* Mutant: every 5xx answer is retried.
RetryAllowed_Any5xx(retries, e) ==
    /\ ~(retries <= 0)
    /\ ~( ~isAxiosError(e) \/ (e.status # 0 /\ e.status < 500) )

\* Mutant: an error without a response is not retried.
RetryAllowed_NoNetwork(retries, e) ==
    /\ ~(retries <= 0)
    /\ ~( ~isAxiosError(e) \/ e.status # 500 )

\* Mutant: a 401 answer is retried as well.
RetryAllowed_Unauthorized(retries, e) ==
    /\ ~(retries <= 0)
    /\ ~( ~isAxiosError(e) \/ (e.status # 0 /\ e.status # 500 /\ e.status # 401) )

\* withRetry, catch block: the two tests that end in `throw error`, negated.
\* error.response is present exactly when the status is not 0.
RetryAllowed(retries, e) ==
    /\ ~(retries <= 0)
    /\ ~( ~isAxiosError(e) \/ (e.status # 0 /\ e.status # 500) )

\* String(userId).trim()
Trim(id) == IF id = " u2 " THEN "u2" ELSE id

\* Mutant: the test for the admin's own account is missing.
IsSelf_Never(userId, u) == FALSE

\* handleDeleteUser: userId === user?.id
IsSelf(userId, u) == userId = u.id

\* handleDeleteUser, catch block: the text of the toast.
DeleteUserError(e) ==
    IF e.status = 404 THEN "User not found"
    ELSE IF e.status = 403 THEN "You do not have permission to delete this user"
    ELSE IF e.status = 400 THEN "Cannot delete admin account"
    ELSE "Failed to revoke user access"

\* Mutant: the submit button is never disabled.
SubmitDisabled_Never(ld) == FALSE

\* NewBookingPage: disabled={loading} of the submit button. A disabled
\* default button also blocks the form's implicit submission.
SubmitDisabled(ld) == ld

\* NewBookingPage.handleSubmit, catch block: the text of the toast.
\* error.response is undefined for an error without an answer.
SubmitError(e, msg) ==
    IF isAxiosError(e) /\ e.status # 0 /\ msg # Absent THEN msg ELSE "Failed to create booking"

\* Mutant: the delay is passed on as it is.
NextDelay_Constant(d) == d

\* withRetry: `delay * 1.5`, the delay passed to the next invocation. The
\* product is a whole number for every delay that is waited for.
NextDelay(d) == (d * 3) \div 2

\* Mutant: the error of the first attempt is kept and thrown.
WithRetryThrow_First(e, errs) == Head(errs)

\* withRetry: `throw error`, with the errors caught so far (e included).
WithRetryThrow(e, errs) == e

\* withRetry: `return await apiCall()`.
WithRetryReturn(d) == d

\* The value of the Authorization header when the template `Bearer ${token}`
\* is filled with an undefined token.
BearerUndefined == "Bearer undefined"

\* usersAdminService.deleteUser: the Authorization header it builds itself.
DeleteUserHeader(c) ==
    IF CookiesGet(c) # Absent THEN CookiesGet(c) ELSE BearerUndefined

\* A withRetry call that returned or threw is on record for one step: its
\* caller has taken the result by the time anything else happens.
Observe(c) == IF c.phase \in {"returned", "thrown"} THEN NoCall ELSE c

\* Requests in flight, and a wrapped call waiting for its timer.
Load == BagCardinality(inflight) + (IF call.phase = "waiting" THEN 1 ELSE 0)

----------------------------------------------------------------------------
Init ==
    /\ user = Null
    /\ loading = TRUE
    /\ cookie \in {NoCookie} \cup {CookiesSet(t) : t \in Tokens}
    /\ pathname \in Paths
    /\ boot = "pending"
    /\ inflight = EmptyBag
    /\ sent = NoRequest
    /\ routerNav = NoNav
    /\ reloadPending = FALSE
    /\ redirected = FALSE
    /\ screen = Render(pathname, loading, user)
    /\ authDone = FALSE
    /\ reply = NoReply
    /\ outcome = Idle
    /\ call = NoCall
    /\ page = NoPage
    /\ form = NoForm
    /\ admin = NoAdmin
    /\ server = NoServer
    /\ calls = EmptyBag
    /\ toast = NoToast

----------------------------------------------------------------------------
(* AuthProvider: the mount effect *)

Startup ==
    /\ boot = "pending"
    /\ IF ~HasToken(cookie)
       THEN /\ loading' = FALSE
            /\ boot' = "done"
            /\ inflight' = inflight
            /\ sent' = NoRequest
            /\ outcome' = Observed("startup", NoError)
       ELSE /\ loading' = loading
            /\ boot' = "fetching"
            /\ sent' = Request("me", RequestInterceptor(cookie))
            /\ inflight' = Send(sent')
            /\ outcome' = Idle
    /\ reply' = NoReply
    /\ UNCHANGED << user, cookie, pathname, reloadPending, authDone, call, pageVars >>
    /\ Commit(routerNav)

\* GET /auth/me answers 2xx with body b.
LoadUserOk(r, b) ==
    /\ inflight' = Take(r)
    /\ sent' = NoRequest
    /\ user' = LoadUserSession(b, user)
    /\ loading' = LoadUserFinally(TRUE)
    /\ boot' = "done"
    /\ outcome' = Observed("startup", NoError)
    /\ reply' = Answer(r, TRUE, b, NoError)
    /\ UNCHANGED << cookie, pathname, reloadPending, authDone, call, pageVars >>
    /\ Commit(routerNav)

\* GET /auth/me fails with error e.
LoadUserFail(r, e) ==
    /\ inflight' = Take(r)
    /\ sent' = NoRequest
    /\ cookie' = GetCurrentUserCatch(e, InterceptorCookie(e, cookie))
    /\ reloadPending' = (reloadPending \/ InterceptorReload(e, pathname))
    /\ loading' = LoadUserFinally(FALSE)
    /\ boot' = "done"
    /\ outcome' = Observed("startup", LoadUserCatch(e))
    /\ reply' = Answer(r, FALSE, NoBody, e)
    /\ UNCHANGED << user, pathname, authDone, call, pageVars >>
    /\ Commit(routerNav)

LoadUserSettle ==
    \E r \in BagToSet(inflight) :
        /\ r.op = "me"
        /\ \/ \E b \in MeBodies(r.auth) : LoadUserOk(r, b)
           \/ \E e \in AxiosErrors : LoadUserFail(r, e)

----------------------------------------------------------------------------
(* AuthProvider: login and register *)

\* login / register up to the await: setLoading(true) and the POST.
AuthStart(op) ==
    /\ Interactive
    /\ BagCardinality(inflight) < MaxInflight
    /\ loading' = TRUE
    /\ sent' = Request(op, RequestInterceptor(cookie))
    /\ inflight' = Send(sent')
    /\ reply' = NoReply
    /\ UNCHANGED << user, cookie, pathname, boot, reloadPending, authDone, call, pageVars >>
    /\ outcome' = Idle
    /\ Commit(routerNav)

\* The POST answers 2xx with body b.
AuthOk(op, r, b) ==
    /\ inflight' = Take(r)
    /\ sent' = NoRequest
    /\ cookie' = StoreToken(b, cookie)
    /\ reply' = Answer(r, TRUE, b, NoError)
    /\ loading' = FALSE
    /\ UNCHANGED << pathname, boot, reloadPending, call, pageVars >>
    /\ IF b.hasData
       THEN /\ user' = b.user
            /\ outcome' = Observed(op, NoError)
            /\ authDone' = TRUE
            /\ Commit("/dashboard")
       ELSE \* response.data is undefined: reading .user of it throws
            /\ user' = user
            /\ outcome' = Observed(op, ProviderCatch(TypeError))
            /\ authDone' = authDone
            /\ Commit(routerNav)

\* The POST fails with error e.
AuthFail(op, r, e) ==
    /\ inflight' = Take(r)
    /\ sent' = NoRequest
    /\ cookie' = InterceptorCookie(e, cookie)
    /\ reloadPending' = (reloadPending \/ InterceptorReload(e, pathname))
    /\ outcome' = Observed(op, ProviderCatch(e))
    /\ reply' = Answer(r, FALSE, NoBody, e)
    /\ loading' = FALSE
    /\ UNCHANGED << user, pathname, boot, authDone, call, pageVars >>
    /\ Commit(routerNav)

AuthSettle(op) ==
    \E r \in BagToSet(inflight) :
        /\ r.op = op
        /\ \/ \E b \in {x \in AuthBodies : WellFormed(x)} : AuthOk(op, r, b)
           \/ \E e \in AxiosErrors : AuthFail(op, r, e)

Login == AuthStart("login")

LoginSettle == AuthSettle("login")

Register == AuthStart("register")

RegisterSettle == AuthSettle("register")

----------------------------------------------------------------------------
(* AuthProvider: logout and updateUserProfile *)

\* Mutant: logout clears the cookie and leaves the `user` state.
Logout_KeepsUser ==
    /\ Interactive
    /\ cookie' = CookiesRemove
    /\ reloadPending' = TRUE
    /\ outcome' = Observed("logout", NoError)
    /\ reply' = NoReply
    /\ sent' = NoRequest
    /\ UNCHANGED << user, loading, pathname, boot, inflight, authDone, call, pageVars >>
    /\ Commit(routerNav)

Logout ==
    /\ Interactive
    /\ cookie' = CookiesRemove
    /\ reloadPending' = TRUE
    /\ user' = Null
    /\ outcome' = Observed("logout", NoError)
    /\ reply' = NoReply
    /\ sent' = NoRequest
    /\ UNCHANGED << loading, pathname, boot, inflight, authDone, call, pageVars >>
    /\ Commit(routerNav)

\* Mutant: the `if (user)` test is missing.
UpdatedProfile_Unguarded(u, data) ==
    [u EXCEPT !.name = data.name, !.email = data.email, !.phone = data.phone]

UpdatedProfile(u, data) ==
    IF isAuthenticatedOf(u)
    THEN [u EXCEPT !.name = data.name, !.email = data.email, !.phone = data.phone]
    ELSE u

updateUserProfile ==
    /\ Interactive
    /\ \E data \in ProfileInputs : user' = UpdatedProfile(user, data)
    /\ reply' = NoReply
    /\ sent' = NoRequest
    /\ UNCHANGED << loading, cookie, pathname, boot, inflight, reloadPending, authDone, call, pageVars >>
    /\ outcome' = Observed("updateUserProfile", NoError)
    /\ Commit(routerNav)

----------------------------------------------------------------------------
(* ProfilePage.handleSubmit: PATCH /users/profile through the axios instance *)

ProfileSubmit ==
    /\ Interactive
    /\ pathname = "/dashboard/profile"
    /\ screen = "content"
    /\ isAuthenticated
    /\ BagCardinality(inflight) < MaxInflight
    /\ sent' = Request("profile", RequestInterceptor(cookie))
    /\ inflight' = Send(sent')
    /\ reply' = NoReply
    /\ UNCHANGED << user, loading, cookie, pathname, boot, reloadPending, authDone, call, pageVars >>
    /\ outcome' = Idle
    /\ Commit(routerNav)

ProfileSettle ==
    \E r \in BagToSet(inflight) :
        /\ r.op = "profile"
        /\ inflight' = Take(r)
        /\ sent' = NoRequest
        /\ \/ /\ reply' = Answer(r, TRUE, NoBody, NoError)
              /\ UNCHANGED << cookie, reloadPending >>
           \/ \E e \in AxiosErrors :
                /\ reply' = Answer(r, FALSE, NoBody, e)
                /\ cookie' = InterceptorCookie(e, cookie)
                /\ reloadPending' = (reloadPending \/ InterceptorReload(e, pathname))
        /\ UNCHANGED << user, loading, pathname, boot, authDone, call, pageVars >>
        /\ outcome' = Idle
        /\ Commit(routerNav)

----------------------------------------------------------------------------
(* The browser and the router *)

\* The document is replaced after an assignment to window.location.href:
\* a new AuthProvider is constructed and the old page's requests are dropped.
PageLoad ==
    /\ reloadPending
    /\ user' = Null
    /\ loading' = TRUE
    /\ pathname' = "/login"
    /\ boot' = "pending"
    /\ inflight' = EmptyBag
    /\ sent' = NoRequest
    /\ reloadPending' = FALSE
    /\ authDone' = FALSE
    /\ reply' = NoReply
    /\ outcome' = Idle
    /\ cookie' = cookie
    /\ call' = NoCall
    /\ page' = NoPage
    /\ form' = NoForm
    /\ admin' = NoAdmin
    /\ server' = server
    /\ calls' = EmptyBag
    /\ toast' = NoToast
    /\ screen' = Render("/login", TRUE, Null)
    /\ redirected' = FALSE
    /\ routerNav' = NoNav

\* The router completes a push or replace.
RouteChange ==
    /\ ~reloadPending
    /\ routerNav # NoNav
    /\ pathname' = routerNav
    /\ reply' = NoReply
    /\ sent' = NoRequest
    /\ UNCHANGED << user, loading, cookie, boot, inflight, reloadPending, authDone, call, pageVars >>
    /\ outcome' = Idle
    /\ Commit(NoNav)

\* The user follows a link of a page that is shown.
FollowLink ==
    /\ Interactive
    /\ screen = "content"
    /\ \E p \in Guarded \ {pathname} : pathname' = p
    /\ reply' = NoReply
    /\ sent' = NoRequest
    /\ UNCHANGED << user, loading, cookie, boot, inflight, reloadPending, authDone, call, pageVars >>
    /\ outcome' = Idle
    /\ Commit(NoNav)

----------------------------------------------------------------------------
Next ==
    \/ Startup
    \/ LoadUserSettle
    \/ Login
    \/ LoginSettle
    \/ Register
    \/ RegisterSettle
    \/ Logout
    \/ updateUserProfile
    \/ ProfileSubmit
    \/ ProfileSettle
    \/ PageLoad
    \/ RouteChange
    \/ FollowLink

Spec == Init /\ [][Next]_vars

\* The mount effect runs once the provider is mounted, and every GET /auth/me
\* that keeps being in flight settles (axios gives up after its 10 s timeout).
LiveSpec == Spec /\ WF_vars(Startup) /\ SF_vars(LoadUserSettle)

----------------------------------------------------------------------------
(* The API service module on its own: any caller may invoke any operation. *)
(* The AuthProvider's state stays as constructed.                          *)

sessionVars == << user, loading, boot, routerNav, redirected, screen, authDone >>

ApiInit == Init

\* authService.login / register / getCurrentUser and api.patch('/users/profile'):
\* the request leaves through the axios instance.
ApiStart(op) ==
    /\ ~reloadPending
    /\ Load < MaxInflight
    /\ sent' = Request(op, RequestInterceptor(cookie))
    /\ inflight' = Send(sent')
    /\ reply' = NoReply
    /\ outcome' = Idle
    /\ call' = Observe(call)
    /\ UNCHANGED << cookie, pathname, reloadPending, sessionVars, pageVars >>

authServiceLogin == ApiStart("login")

authServiceRegister == ApiStart("register")

getCurrentUser == ApiStart("me")

ProfilePatch == ApiStart("profile")

\* The request of one of these operations settles.
ApiSettle ==
    \E r \in BagToSet(inflight) :
        /\ r.op \in DirectOps
        /\ inflight' = Take(r)
        /\ sent' = NoRequest
        /\ \/ \E t \in (IF r.op \in AuthOps THEN Tokens \cup {Absent} ELSE {Absent}) :
                LET b == [NoBody EXCEPT !.token = t]
                IN  /\ reply' = Answer(r, TRUE, b, NoError)
                    /\ cookie' = IF r.op \in AuthOps THEN StoreToken(b, cookie) ELSE cookie
                    /\ reloadPending' = reloadPending
                    /\ outcome' = Observed(r.op, NoError)
           \/ \E e \in AxiosErrors :
                /\ reply' = Answer(r, FALSE, NoBody, e)
                /\ cookie' = IF r.op = "me"
                              THEN GetCurrentUserCatch(e, InterceptorCookie(e, cookie))
                              ELSE InterceptorCookie(e, cookie)
                /\ reloadPending' = (reloadPending \/ InterceptorReload(e, pathname))
                /\ outcome' = Observed(r.op, e)
        /\ call' = Observe(call)
        /\ UNCHANGED << pathname, sessionVars, pageVars >>

\* authService.logout
authServiceLogout ==
    /\ ~reloadPending
    /\ cookie' = CookiesRemove
    /\ reloadPending' = TRUE
    /\ sent' = NoRequest
    /\ reply' = NoReply
    /\ outcome' = Observed("logout", NoError)
    /\ call' = Observe(call)
    /\ UNCHANGED << pathname, inflight, sessionVars, pageVars >>

\* usersAdminService.deleteUser: axios.delete with its own headers, not
\* through the axios instance.
deleteUser ==
    /\ ~reloadPending
    /\ Load < MaxInflight
    /\ \E userId \in {"u1", Absent} :
          IF userId = Absent
          THEN /\ sent' = NoRequest
               /\ inflight' = inflight
               /\ outcome' = Observed("deleteUser", RequiredError)
          ELSE /\ sent' = Request("deleteUser", DeleteUserHeader(cookie))
               /\ inflight' = Send(sent')
               /\ outcome' = Idle
    /\ reply' = NoReply
    /\ call' = Observe(call)
    /\ UNCHANGED << cookie, pathname, reloadPending, sessionVars, pageVars >>

deleteUserSettle ==
    \E r \in BagToSet(inflight) :
        /\ r.op = "deleteUser"
        /\ inflight' = Take(r)
        /\ sent' = NoRequest
        /\ \/ /\ reply' = Answer(r, TRUE, NoBody, NoError)
              /\ outcome' = Observed("deleteUser", NoError)
           \/ \E e \in AxiosErrors :
                /\ reply' = Answer(r, FALSE, NoBody, e)
                /\ outcome' = Observed("deleteUser", e)
        /\ call' = Observe(call)
        /\ UNCHANGED << cookie, pathname, reloadPending, sessionVars, pageVars >>

\* withRetry(apiCall) with the default arguments, up to the first await:
\* the first invocation of apiCall sends its request.
WithRetryStart(op) ==
    /\ ~reloadPending
    /\ call.phase \in {"idle", "returned", "thrown"}
    /\ Load < MaxInflight
    /\ call' = [NoCall EXCEPT !.op = op, !.phase = "attempt",
                             !.retries = DefaultRetries, !.delay = DefaultDelay,
                             !.attempts = 1]
    /\ sent' = Request(op, RequestInterceptor(cookie))
    /\ inflight' = Send(sent')
    /\ reply' = NoReply
    /\ outcome' = Idle
    /\ UNCHANGED << cookie, pathname, reloadPending >>

withRetry(op) == WithRetryStart(op) /\ UNCHANGED << sessionVars, pageVars >>

getAllBookings == withRetry("getAllBookings")

getAllUsers == withRetry("getAllUsers")

\* The attempt's request answers 2xx and the callback returns d.
AttemptOk(r, d) ==
    /\ reply' = Answer(r, TRUE, NoBody, NoError)
    /\ call' = [call EXCEPT !.phase = "returned", !.response = d,
                            !.result = WithRetryReturn(d)]
    /\ outcome' = Observed(call.op, NoError)
    /\ UNCHANGED << cookie, reloadPending >>

\* The attempt fails with e: the response interceptor runs (for an answer
\* with a status), then the catch block of withRetry.
AttemptFail(r, e) ==
    LET errs == Append(call.errors, e)
        seen == [call EXCEPT !.errors = errs,
                             !.removed = IF e.status = 401 THEN @ + 1 ELSE @]
    IN  /\ reply' = IF isAxiosError(e) THEN Answer(r, FALSE, NoBody, e)
                                       ELSE Answer(r, TRUE, NoBody, NoError)
        /\ cookie' = InterceptorCookie(e, cookie)
        /\ reloadPending' = (reloadPending \/ InterceptorReload(e, pathname))
        /\ IF RetryAllowed(call.retries, e)
           THEN /\ call' = [seen EXCEPT !.phase = "waiting",
                                        !.waits = Append(@, call.delay)]
                /\ outcome' = Idle
           ELSE /\ call' = [seen EXCEPT !.phase = "thrown",
                                        !.error = WithRetryThrow(e, errs)]
                /\ outcome' = Observed(call.op, call'.error)

\* The request of the attempt in progress settles.
Attempt(r) ==
    /\ inflight' = Take(r)
    /\ sent' = NoRequest
    /\ \/ \E d \in Results : AttemptOk(r, d)
       \/ \E e \in AttemptErrors : AttemptFail(r, e)
    /\ pathname' = pathname

withRetrySettle ==
    \E r \in BagToSet(inflight) :
        /\ r.op \in WrappedOps
        /\ Attempt(r)
        /\ UNCHANGED << sessionVars, pageVars >>

\* The timer of the backoff fires: withRetry(apiCall, retries - 1, delay * 1.5)
\* up to its await.
withRetryWake ==
    /\ call.phase = "waiting"
    /\ call' = [call EXCEPT !.phase = "attempt", !.retries = @ - 1,
                            !.delay = NextDelay(@), !.attempts = @ + 1]
    /\ sent' = Request(call.op, RequestInterceptor(cookie))
    /\ inflight' = Send(sent')
    /\ reply' = NoReply
    /\ outcome' = Idle
    /\ UNCHANGED << cookie, pathname, reloadPending, sessionVars, pageVars >>

ApiNext ==
    \/ authServiceLogin
    \/ authServiceRegister
    \/ getCurrentUser
    \/ ProfilePatch
    \/ ApiSettle
    \/ authServiceLogout
    \/ deleteUser
    \/ deleteUserSettle
    \/ getAllBookings
    \/ getAllUsers
    \/ withRetrySettle
    \/ withRetryWake
    \/ PageLoad

ApiSpec == ApiInit /\ [][ApiNext]_vars

\* Every attempt of a wrapped call settles (axios gives up after its 10 s
\* timeout) and every timer fires.
ApiLiveSpec == ApiSpec /\ WF_vars(withRetrySettle) /\ WF_vars(withRetryWake)

----------------------------------------------------------------------------
(* The bookings pages, Dashboard and BookingDetailsPage, mounted under the  *)
(* guard for the session of an admin. The status filter of the Dashboard    *)
(* stays at 'all', which shows every row a filter would show. A service     *)
(* call is followed from the handler's await to its resolution; the         *)
(* attempts withRetry makes for it are not told apart.                      *)

\* The state a bookings page is mounted with.
Mounted(view) == [NoPage EXCEPT !.view = view]

\* The calls in progress with call c added, and with it taken out.
Started(c) == calls (+) SetToBag({c})

Resolved(c) == calls (-) SetToBag({c})

\* bookingsService.getAllBookingsAdmin / getAllBookings, as the mount effect calls it.
FetchCall == PageCall("getBookings", NoBooking, "none", RequestInterceptor(cookie))

\* The variables no handler of a bookings page assigns.
bookingsFrame ==
    << loading, sent, redirected, screen, authDone, reply, outcome, call, form, admin >>

\* The admin has logged in with token t2 and the router has shown the page,
\* whose mount effect has sent GET /bookings. The provider's startup check
\* is over, or its GET /auth/me, sent with the token t1 the document was
\* loaded with, is still in flight.
BookingsInit ==
    /\ user = ServerUser("u2")
    /\ loading = FALSE
    /\ cookie = CookiesSet("t2")
    /\ \E view \in {"list", "details"} :
          /\ pathname = (IF view = "list" THEN "/dashboard" ELSE DetailsPath)
          /\ page = Mounted(view)
    /\ \/ boot = "done" /\ inflight = EmptyBag
       \/ boot = "fetching" /\ inflight = SetToBag({Pending(Request("me", "t1"))})
    /\ sent = NoRequest
    /\ routerNav = NoNav
    /\ reloadPending = FALSE
    /\ redirected = FALSE
    /\ screen = "content"
    /\ authDone = TRUE
    /\ reply = NoReply
    /\ outcome = Idle
    /\ call = NoCall
    /\ form = NoForm
    /\ admin = NoAdmin
    /\ server = [bookings |-> [b \in BookingIds |-> "pending"], applied |-> 0]
    /\ calls = SetToBag({PageCall("getBookings", NoBooking, "none", "t2")})
    /\ toast = NoToast

\* The server deals with a request: it answers 2xx after doing what was
\* asked, or it fails, with the change made or not. A booking it does not
\* hold cannot be changed.
ServerAnswers ==
    \E c \in BagToSet(calls) :
        /\ c.stage = "sent"
        /\ \E ok \in BOOLEAN, done \in BOOLEAN :
              /\ ok => done
              /\ c.op = "getBookings" => done = ok
              /\ (c.op # "getBookings" /\ server.bookings[c.id] = Gone) => ~done
              /\ server' =
                    IF done /\ c.op = "adminUpdateBookingStatus"
                    THEN [server EXCEPT !.bookings = SetStatus(@, c.id, c.status)]
                    ELSE IF done /\ c.op = "deleteBooking"
                    THEN [server EXCEPT !.bookings = RemoveBooking(@, c.id)]
                    ELSE server
              /\ calls' = Resolved(c) (+) SetToBag(
                    { [c EXCEPT !.stage = "answered", !.ok = ok,
                                !.data = IF ok /\ c.op = "getBookings"
                                         THEN BookingsOf(ServerUser(Owner(c.auth)), server.bookings)
                                         ELSE NoBookings] })
        /\ toast' = NoToast
        /\ UNCHANGED << user, cookie, pathname, boot, inflight, routerNav, reloadPending,
                        page, bookingsFrame >>

\* fetchBookings of the Dashboard, fetchBooking of the details page: the
\* call resolves.
FetchSettle ==
    \E c \in BagToSet(calls) :
        /\ c.op = "getBookings" /\ c.stage = "answered"
        /\ calls' = Resolved(c)
        /\ \/ /\ c.ok
              /\ page' = [page EXCEPT !.bookings = Fetched(page.view, c.data),
                                      !.error = @ \/ (page.view = "details" /\ c.data[PageId] = Gone),
                                      !.isLoading = FALSE]
              /\ UNCHANGED << cookie, reloadPending >>
           \/ /\ ~c.ok
              /\ \E e \in CallErrors :
                    /\ cookie' = InterceptorCookie(e, cookie)
                    /\ reloadPending' = (reloadPending \/ InterceptorReload(e, pathname))
              /\ page' = [page EXCEPT !.error = TRUE, !.isLoading = FALSE]
        /\ toast' = NoToast
        /\ UNCHANGED << user, pathname, boot, inflight, routerNav, server, bookingsFrame >>

\* The rows and buttons of the page are rendered.
Shown(id) ==
    /\ page.view # "none"
    /\ ~page.isLoading
    /\ ~page.error
    /\ page.bookings[id] # Gone

\* The control of booking `id` whose onClick calls
\* handleStatusChange(id, newStatus): the Confirm, Cancel or Restore button,
\* or the 'Yes, Cancel' button of the confirmation.
StatusControl(id, newStatus) ==
    \/ /\ isAdmin
       /\ ~ButtonDisabled(page.updatingStatus)
       /\ \/ newStatus = "confirmed" /\ page.bookings[id] = "pending"
          \/ newStatus = "cancelled" /\ page.bookings[id] # "cancelled"
          \/ newStatus = "pending" /\ page.bookings[id] = "cancelled" /\ page.view = "details"
    \/ /\ newStatus = "cancelled"
       /\ page.showCancelConfirm = id
       /\ page.view = "list" => isAdmin

handleStatusChange(id, newStatus) ==
    /\ ~reloadPending
    /\ Shown(id)
    /\ StatusControl(id, newStatus)
    /\ BagCardinality(calls) < MaxCalls
    /\ IF NeedsConfirm(newStatus, page.showCancelConfirm, id)
       THEN /\ page' = [page EXCEPT !.showCancelConfirm = id,
                                    !.updatingStatus =
                                        IF page.view = "details" THEN StatusChangeFinally(TRUE) ELSE @]
            /\ calls' = calls
       ELSE /\ page' = [page EXCEPT !.showCancelConfirm = NoBooking, !.updatingStatus = TRUE]
            /\ calls' = Started(
                  PageCall("adminUpdateBookingStatus", id, newStatus,
                            RequestInterceptor(cookie)))
    /\ toast' = NoToast
    /\ UNCHANGED << user, cookie, pathname, boot, inflight, routerNav, reloadPending,
                    server, bookingsFrame >>

\* The 'No' button of the confirmation.
DismissConfirm ==
    /\ ~reloadPending
    /\ page.showCancelConfirm # NoBooking
    /\ Shown(page.showCancelConfirm)
    /\ page.view = "list" => isAdmin
    /\ page' = [page EXCEPT !.showCancelConfirm = NoBooking]
    /\ toast' = NoToast
    /\ UNCHANGED << user, cookie, pathname, boot, inflight, routerNav, reloadPending,
                    server, calls, bookingsFrame >>

\* handleStatusChange after its await: the update resolves.
StatusChangeSettle ==
    \E c \in BagToSet(calls) :
        /\ c.op = "adminUpdateBookingStatus" /\ c.stage = "answered"
        /\ calls' = Resolved(c)
        /\ \/ /\ c.ok
              /\ page' = [page EXCEPT !.bookings = SetStatus(@, c.id, c.status),
                                      !.updatingStatus = StatusChangeFinally(TRUE)]
              /\ toast' = Toast("Booking status updated", 200, Absent)
              /\ UNCHANGED << cookie, reloadPending >>
           \/ /\ ~c.ok
              /\ \E e \in PageErrors, msg \in Messages :
                    /\ (e.status = 0 => msg = Absent)
                    /\ cookie' = InterceptorCookie(e, cookie)
                    /\ reloadPending' = (reloadPending \/ InterceptorReload(e, pathname))
                    /\ toast' = Toast(StatusChangeError(e, msg), e.status, msg)
              /\ page' = [page EXCEPT !.updatingStatus = StatusChangeFinally(FALSE)]
        /\ UNCHANGED << user, pathname, boot, inflight, routerNav, server, bookingsFrame >>

\* The Delete button, with window.confirm accepted.
handleDeleteBooking(id) ==
    /\ ~reloadPending
    /\ Shown(id)
    /\ isAdmin
    /\ BagCardinality(calls) < MaxCalls
    /\ calls' = Started(
          PageCall("deleteBooking", id, "none", RequestInterceptor(cookie)))
    /\ toast' = NoToast
    /\ UNCHANGED << user, cookie, pathname, boot, inflight, routerNav, reloadPending,
                    page, server, bookingsFrame >>

\* handleDeleteBooking after its await: the Dashboard drops the row, the
\* details page asks the router for the Dashboard.
DeleteSettle ==
    \E c \in BagToSet(calls) :
        /\ c.op = "deleteBooking" /\ c.stage = "answered"
        /\ calls' = Resolved(c)
        /\ \/ /\ c.ok
              /\ page' = IF page.view = "list"
                         THEN [page EXCEPT !.bookings = RemoveBooking(@, c.id),
                                           !.deleted = @ \cup {c.id}]
                         ELSE page
              /\ routerNav' = IF page.view = "details" THEN "/dashboard" ELSE routerNav
              /\ toast' = Toast("Booking deleted successfully", 200, Absent)
              /\ UNCHANGED << cookie, reloadPending >>
           \/ /\ ~c.ok
              /\ \E e \in CallErrors :
                    /\ cookie' = InterceptorCookie(e, cookie)
                    /\ reloadPending' = (reloadPending \/ InterceptorReload(e, pathname))
                    /\ toast' = Toast("Failed to delete booking", e.status, Absent)
              /\ UNCHANGED << page, routerNav >>
        /\ UNCHANGED << user, pathname, boot, inflight, server, bookingsFrame >>

\* The router completes the push of the details page: the Dashboard is
\* mounted and its effect sends GET /bookings. The callbacks of the page
\* that was unmounted set no state, and its calls are followed no further.
DashboardMount ==
    /\ ~reloadPending
    /\ routerNav = "/dashboard"
    /\ page.view = "details"
    /\ pathname' = "/dashboard"
    /\ routerNav' = NoNav
    /\ page' = Mounted("list")
    /\ calls' = SetToBag({FetchCall})
    /\ toast' = NoToast
    /\ UNCHANGED << user, cookie, boot, inflight, reloadPending, server, bookingsFrame >>

\* The effects of the page whose dependencies the new session changes:
\* [isAdmin] on the Dashboard, [id, isAdmin, router, user?.id] on the
\* details page.
Refetches(view, u, v) ==
    \/ isAdminOf(u) # isAdminOf(v)
    \/ view = "details" /\ u.id # v.id

\* loadUser of the AuthProvider while the page is mounted: the startup
\* check's GET /auth/me is answered, and the page's effect runs again when
\* its dependencies changed.
loadUser ==
    \E r \in BagToSet(inflight) :
        /\ r.op = "me"
        /\ inflight' = Take(r)
        /\ boot' = "done"
        /\ \/ \E b \in MeBodies(r.auth) :
                /\ user' = LoadUserSession(b, user)
                /\ UNCHANGED << cookie, reloadPending >>
           \/ \E e \in AxiosErrors :
                /\ user' = user
                /\ cookie' = GetCurrentUserCatch(e, InterceptorCookie(e, cookie))
                /\ reloadPending' = (reloadPending \/ InterceptorReload(e, pathname))
        /\ IF page.view # "none" /\ Refetches(page.view, user, user')
           THEN /\ page' = [page EXCEPT !.isLoading = TRUE]
                /\ calls' = Started(FetchCall)
           ELSE UNCHANGED << page, calls >>
        /\ toast' = NoToast
        /\ UNCHANGED << pathname, routerNav, server, bookingsFrame >>

BookingsNext ==
    \/ ServerAnswers
    \/ FetchSettle
    \/ \E id \in BookingIds, s \in Statuses : handleStatusChange(id, s)
    \/ DismissConfirm
    \/ StatusChangeSettle
    \/ \E id \in BookingIds : handleDeleteBooking(id)
    \/ DeleteSettle
    \/ DashboardMount
    \/ loadUser
    \/ PageLoad

BookingsSpec == BookingsInit /\ [][BookingsNext]_vars

----------------------------------------------------------------------------
(* NewBookingPage, mounted under the guard for the session of a customer:   *)
(* handleSubmit and the withRetry call of bookingsService.createBooking.    *)
(* server.applied counts how often the server has created the booking of    *)
(* the submission in progress.                                              *)

FormPath == "/new-booking"

FormInit ==
    /\ user = ServerUser("u1")
    /\ loading = FALSE
    /\ cookie = CookiesSet("t1")
    /\ pathname = FormPath
    /\ boot = "done"
    /\ inflight = EmptyBag
    /\ sent = NoRequest
    /\ routerNav = NoNav
    /\ reloadPending = FALSE
    /\ redirected = FALSE
    /\ screen = "content"
    /\ authDone = FALSE
    /\ reply = NoReply
    /\ outcome = Idle
    /\ call = NoCall
    /\ page = NoPage
    /\ form = NoForm
    /\ admin = NoAdmin
    /\ server = NoServer
    /\ calls = EmptyBag
    /\ toast = NoToast

\* The form is submitted: handleSubmit up to its await. The handler has no
\* guard of its own; a submission during a call in progress, which the
\* button rules out, is counted in form.unresolved and followed no further.
handleSubmit ==
    /\ ~reloadPending
    /\ pathname = FormPath
    /\ ~SubmitDisabled(form.loading)
    /\ form' = [form EXCEPT !.loading = TRUE, !.unresolved = @ + 1]
    /\ IF call.phase \in {"idle", "returned", "thrown"}
       THEN /\ WithRetryStart("createBooking")
            /\ server' = [server EXCEPT !.applied = 0]
       ELSE UNCHANGED << call, sent, inflight, reply, outcome, cookie, pathname,
                         reloadPending, server >>
    /\ toast' = NoToast
    /\ UNCHANGED << sessionVars, page, admin, calls >>

\* Whether the server created the booking before it answered: always before
\* a 2xx answer, never before a 4xx, and possibly before a 5xx or when no
\* answer arrived.
MayApply(ok, e) ==
    IF ok THEN {TRUE}
    ELSE IF e.status \in {0, 500, 503} THEN BOOLEAN
    ELSE {FALSE}

\* The request of an attempt of createBooking settles; when withRetry
\* returns or throws, handleSubmit runs to its end.
SubmitSettle ==
    \E r \in BagToSet(inflight) :
        /\ r.op = "createBooking"
        /\ Attempt(r)
        /\ \E done \in MayApply(reply'.ok, reply'.error) :
              server' = [server EXCEPT !.applied = IF done THEN @ + 1 ELSE @]
        /\ IF call'.phase = "returned"
           THEN /\ form' = [form EXCEPT !.loading = FALSE, !.unresolved = @ - 1]
                /\ toast' = Toast("Booking created successfully!", 200, Absent)
                /\ routerNav' = "/dashboard"
           ELSE IF call'.phase = "thrown"
           THEN /\ form' = [form EXCEPT !.loading = FALSE, !.unresolved = @ - 1]
                /\ \E msg \in Messages :
                      /\ (~isAxiosError(call'.error) \/ call'.error.status = 0) => msg = Absent
                      /\ toast' = Toast(SubmitError(call'.error, msg), call'.error.status, msg)
                /\ routerNav' = routerNav
           ELSE /\ form' = form
                /\ toast' = NoToast
                /\ routerNav' = routerNav
        /\ UNCHANGED << user, loading, boot, redirected, screen, authDone, page, admin, calls >>

\* The router completes the push: the form is unmounted.
FormLeave ==
    /\ ~reloadPending
    /\ routerNav = "/dashboard"
    /\ pathname' = "/dashboard"
    /\ routerNav' = NoNav
    /\ form' = NoForm
    /\ toast' = NoToast
    /\ call' = Observe(call)
    /\ sent' = NoRequest
    /\ reply' = NoReply
    /\ outcome' = Idle
    /\ UNCHANGED << user, loading, cookie, boot, inflight, reloadPending, redirected,
                    screen, authDone, page, admin, server, calls >>

FormNext ==
    \/ handleSubmit
    \/ SubmitSettle
    \/ withRetryWake
    \/ FormLeave
    \/ PageLoad

FormSpec == FormInit /\ [][FormNext]_vars

----------------------------------------------------------------------------
(* The user management of the ProfilePage, mounted under the guard for the  *)
(* session of an admin.                                                     *)

ProfilePath == "/dashboard/profile"

\* The page has been mounted and its effect has called getAllUsers.
AdminInit ==
    /\ user = ServerUser("u2")
    /\ loading = FALSE
    /\ cookie = CookiesSet("t2")
    /\ pathname = ProfilePath
    /\ boot = "done"
    /\ inflight = EmptyBag
    /\ sent = NoRequest
    /\ routerNav = NoNav
    /\ reloadPending = FALSE
    /\ redirected = FALSE
    /\ screen = "content"
    /\ authDone = FALSE
    /\ reply = NoReply
    /\ outcome = Idle
    /\ call = NoCall
    /\ page = NoPage
    /\ form = NoForm
    /\ admin = [NoAdmin EXCEPT !.loadingUsers = TRUE]
    /\ server = NoServer
    /\ calls = SetToBag({PageCall("getAllUsers", NoUser, "none", "t2")})
    /\ toast = NoToast

\* The variables the user management leaves alone.
adminFrame ==
    << user, loading, pathname, boot, inflight, sent, routerNav, redirected, screen,
       authDone, reply, outcome, call, page, form, server >>

\* fetchUsers: getAllUsers resolves with the rows the server sent, each
\* with an _id, or fails.
fetchUsers ==
    \E c \in BagToSet(calls) :
        /\ c.op = "getAllUsers"
        /\ calls' = Resolved(c)
        /\ \/ /\ \E list \in [ListIds -> {"customer", "admin", Gone}] :
                    admin' = [admin EXCEPT !.users = list, !.loadingUsers = FALSE]
              /\ toast' = NoToast
              /\ UNCHANGED << cookie, reloadPending >>
           \/ /\ \E e \in CallErrors :
                    /\ cookie' = InterceptorCookie(e, cookie)
                    /\ reloadPending' = (reloadPending \/ InterceptorReload(e, pathname))
                    /\ toast' = Toast("Failed to load users", e.status, Absent)
              /\ admin' = [admin EXCEPT !.loadingUsers = FALSE]
        /\ UNCHANGED adminFrame

\* The table of users takes clicks: it is rendered and no modal covers it.
TableShown == isAdmin /\ ~admin.loadingUsers /\ ~admin.showDeleteModal

\* The 'Revoke Access' button of a row, shown for the rows whose role is
\* not 'admin'. Every row has an _id, so the modal opens.
openDeleteModal(id) ==
    /\ ~reloadPending
    /\ TableShown
    /\ admin.users[id] \notin {Gone, "admin"}
    /\ admin' = [admin EXCEPT !.userToDelete = id, !.showDeleteModal = TRUE]
    /\ toast' = NoToast
    /\ UNCHANGED << cookie, reloadPending, calls, adminFrame >>

ModalShown == admin.showDeleteModal /\ admin.userToDelete # NoUser

\* The 'Cancel' button of the modal.
closeDeleteModal ==
    /\ ~reloadPending
    /\ ModalShown
    /\ ~admin.deletingUser
    /\ admin' = [admin EXCEPT !.userToDelete = NoUser, !.showDeleteModal = FALSE]
    /\ toast' = NoToast
    /\ UNCHANGED << cookie, reloadPending, calls, adminFrame >>

\* The confirm button of the modal: handleDeleteUser up to its await, with
\* usersAdminService.deleteUser up to its axios.delete.
handleDeleteUser ==
    /\ ~reloadPending
    /\ ModalShown
    /\ ~admin.deletingUser
    /\ BagCardinality(calls) < MaxCalls
    /\ LET userId == Trim(admin.userToDelete)
       IN  IF IsSelf(userId, user)
           THEN /\ toast' = Toast("You cannot delete your own admin account", 0, Absent)
                /\ admin' = [admin EXCEPT !.userToDelete = NoUser, !.showDeleteModal = FALSE]
                /\ calls' = calls
           ELSE /\ toast' = NoToast
                /\ admin' = [admin EXCEPT !.deletingUser = TRUE]
                /\ calls' = Started(PageCall("deleteUser", userId, "none",
                                             DeleteUserHeader(cookie)))
    /\ UNCHANGED << cookie, reloadPending, adminFrame >>

\* handleDeleteUser after its await. The request did not go through the
\* axios instance, so no interceptor runs.
DeleteUserSettle ==
    \E c \in BagToSet(calls) :
        /\ c.op = "deleteUser"
        /\ calls' = Resolved(c)
        /\ \/ /\ admin' = [admin EXCEPT
                            !.users = [i \in ListIds |-> IF i = c.id THEN Gone ELSE @[i]],
                            !.userToDelete = NoUser, !.showDeleteModal = FALSE,
                            !.deletingUser = FALSE]
              /\ toast' = Toast("User access revoked successfully", 200, Absent)
           \/ /\ \E e \in PageErrors, msg \in Messages :
                    /\ (e.status = 0 => msg = Absent)
                    /\ toast' = Toast(DeleteUserError(e), e.status, msg)
              /\ admin' = [admin EXCEPT !.deletingUser = FALSE]
        /\ UNCHANGED << cookie, reloadPending, adminFrame >>

AdminNext ==
    \/ fetchUsers
    \/ \E id \in ListIds : openDeleteModal(id)
    \/ closeDeleteModal
    \/ handleDeleteUser
    \/ DeleteUserSettle
    \/ PageLoad

AdminSpec == AdminInit /\ [][AdminNext]_vars

----------------------------------------------------------------------------
(* Properties *)

TokenHeld == CookiesGet(cookie) # Absent

GuardMounted == pathname \in Guarded

\* The startup check is over and no request is in flight.
Quiescent == boot = "done" /\ BagCardinality(inflight) = 0

\* The last step delivered an answer (2xx when ok, else an error) to `op`.
Settled(op, ok) == reply.op = op /\ reply.ok = ok

\* A 2xx answer that carries both a token and a user record.
Complete(b) == b.token # Absent /\ b.hasData /\ b.user # Undefined

\* C1: in every quiescent state the session is non-null if and only if a
\* token is held in the cookie store.
C1_SessionIffToken == Quiescent => (isAuthenticated <=> TokenHeld)

\* C2: when POST /auth/login or POST /auth/register answers 2xx with a token
\* and a user record, the call resolves, the cookie store holds that token
\* with a 30-day expiry and the session is that user record.
C2_AuthSuccess ==
    \A op \in AuthOps :
        (Settled(op, TRUE) /\ Complete(reply.body)) =>
            /\ outcome = Observed(op, NoError)
            /\ CookiesGet(cookie) = reply.body.token
            /\ TokenHeld
            /\ cookie.expires = 30
            /\ user = reply.body.user

C2_Witness ==
    /\ Settled("register", TRUE) /\ Complete(reply.body)
    /\ reply.body.token = "t2"
    /\ user = ServerUser("u2")

\* C3: a login or register call never changes the session before its POST
\* is answered, and when the POST fails (no response, 401, another 4xx, a
\* 5xx) the session keeps its value, no token is written to the cookie store
\* (the cookie is left as it was or removed), and the error received is the
\* error thrown to the caller.
C3_AuthFailure ==
    [][ /\ sent'.op \in AuthOps
            => (user' = user /\ cookie' = cookie)
        /\ (reply'.op \in AuthOps /\ ~reply'.ok)
            => /\ user' = user
               /\ cookie' \in {cookie, NoCookie}
               /\ reply'.error \in AxiosErrors
               /\ outcome' = Observed(reply'.op, reply'.error) ]_vars

C3_Witness ==
    /\ Settled("login", FALSE)
    /\ reply.error.status = 401
    /\ outcome.error = reply.error
    /\ isAuthenticated

\* C4: logout can be called in every state of a page that takes user events;
\* after it the session is null, the cookie store holds no token, and the
\* caller observes no error.
C4_Logout ==
    /\ Interactive => ENABLED Logout
    /\ outcome.op = "logout" =>
          (user = Null /\ cookie = NoCookie /\ outcome.error = NoError)

C4_Witness == outcome.op = "logout" /\ boot = "fetching" /\ ~TokenHeld

\* C5: a guarded route shows the loading placeholder while loading is true,
\* nothing while loading is false and isAuthenticated is false, and the
\* wrapped content only when loading is false and isAuthenticated is true.
C5_GuardRender ==
    /\ screen = "content" => (~loading /\ isAuthenticated)
    /\ GuardMounted =>
          /\ loading => screen = "placeholder"
          /\ (~loading /\ ~isAuthenticated) => screen = "nothing"
          /\ (~loading /\ isAuthenticated) => screen = "content"

C5_Witness ==
    GuardMounted /\ ~loading /\ ~isAuthenticated /\ screen = "nothing" /\ TokenHeld

\* A guarded route is mounted with loading false and isAuthenticated false.
GuardRejects == GuardMounted /\ ~loading /\ ~isAuthenticated

\* C6: every step that mounts a guarded route with loading false and
\* isAuthenticated false, or brings a mounted one there, issues a redirect to
\* /login; the guard issues no redirect while loading is true or while
\* isAuthenticated is true.
C6_GuardRedirect ==
    /\ [](redirected => (GuardRejects /\ routerNav = "/login"))
    /\ [][ (GuardRejects' /\ ~(GuardRejects /\ pathname' = pathname))
              => redirected' ]_vars

C6_Witness == redirected /\ routerNav = "/login" /\ Settled("me", FALSE)

\* C7: when the GET /auth/me of the startup check answers 2xx with a user
\* record, the startup check is complete and the session is that record.
C7_StartupSuccess ==
    (Settled("me", TRUE) /\ reply.body.hasData /\ reply.body.user # Undefined) =>
        /\ boot = "done"
        /\ user = reply.body.user

C7_Witness ==
    /\ Settled("me", TRUE)
    /\ user = ServerUser("u1")
    /\ boot = "done"
    /\ ~authDone

C9_StartupNoToken ==
    [][ /\ (boot = "pending" /\ ~TokenHeld /\ boot' # "pending")
            => /\ boot' = "done"
               /\ loading' = FALSE
               /\ user' = Null
               /\ inflight' = inflight
               /\ BagCardinality(inflight') = 0
        /\ boot' = "done"
            => \A r \in BagToSet(inflight') : r.op # "me" ]_vars

C9_Witness ==
    /\ outcome = Observed("startup", NoError)
    /\ reply = NoReply
    /\ ~loading /\ user = Null /\ ~TokenHeld

\* C10: the startup check always ends, and ends with loading = false,
\* whichever branch it takes, provided the fetch settles.
C10_StartupEnds == (boot # "done") ~> (boot = "done" /\ ~loading)

C10_Witness ==
    /\ Settled("me", TRUE)
    /\ ~reply.body.hasData
    /\ boot = "done" /\ ~loading

----------------------------------------------------------------------------
(* Properties of the API service module *)

\* The session is a user record.
SessionPresent == user \in User

\* C11: isAuthenticated is true exactly when the session is a user record,
\* in every reachable state; the session is never anything but a user record
\* or absent (null, or undefined after an answer without a user).
C11_IsAuthenticated ==
    /\ user \in User \cup {Null, Undefined}
    /\ isAuthenticated <=> SessionPresent

C11_Witness ==
    /\ isAuthenticated
    /\ authDone
    /\ user.name = "n2"
    /\ user.id = "u2"

\* C12: every step in which an API call receives HTTP 401, whichever
\* operation sent it, leaves the cookie store without a token and, when the
\* location is neither /login nor /register, assigns window.location.href.
C12_Unauthorized ==
    [][ (reply'.op # "none" /\ ~reply'.ok /\ reply'.error.status = 401)
          => /\ CookiesGet(cookie') = Absent
             /\ ~IsAuthPage(pathname) => reloadPending' ]_vars

\* C13: every request sent carries the token that is in the cookie store
\* when it is sent, and no Authorization header when the store holds none.
C13_AuthorizationHeader ==
    [][ sent'.op # "none"
          => sent'.auth = (IF TokenHeld THEN CookiesGet(cookie) ELSE Absent) ]_vars

\* C14: a step in which an API call fails with anything but HTTP 401 (no
\* response, 400, 500, 503) leaves the cookie as it was, assigns no
\* window.location.href and leaves the location as it was.
C14_OtherFailures ==
    [][ (reply'.op # "none" /\ ~reply'.ok /\ reply'.error.status # 401)
          => /\ cookie' = cookie
             /\ reloadPending' = reloadPending
             /\ pathname' = pathname ]_vars

C14_Witness ==
    /\ reply.op = "getAllUsers"
    /\ ~reply.ok
    /\ reply.error = Unavailable
    /\ TokenHeld
    /\ ~reloadPending
    /\ pathname = "/dashboard/profile"

Last(seq) == seq[Len(seq)]

\* C15: a withRetry call never invokes the wrapped call more than 3 times,
\* and once started it ends: it returns a result or throws an error (or the
\* document is replaced and the call is gone with it).
C15_RetryTerminates ==
    /\ [](/\ call.attempts <= 3
          /\ call.phase = "returned" => (call.result \in Results /\ call.error = NoError)
          /\ call.phase = "thrown" => (call.error \in AttemptErrors /\ call.result = NoResult))
    /\ (call.phase \in {"attempt", "waiting"})
          ~> (call.phase \in {"returned", "thrown", "idle"})

C15_Witness == call.phase = "thrown" /\ call.attempts = 3

\* C16: a failed attempt is followed by a retry exactly when the budget is
\* not used up and the error is an AxiosError without a response or with
\* status 500; any other error is thrown at once, after a single attempt when
\* it is the first one.
C16_RetryCondition ==
    /\ call.phase = "waiting" =>
          (call.retries > 0 /\ Last(call.errors) \in {NetworkError, ServerError})
    /\ call.phase = "thrown" =>
          (call.retries <= 0 \/ Last(call.errors) \notin {NetworkError, ServerError})
    /\ (call.phase = "thrown" /\ call.errors[1] \notin {NetworkError, ServerError}) =>
          call.attempts = 1

C16_Witness ==
    call.phase = "thrown" /\ call.errors = << ServerError, Unavailable >>

\* C17: a wrapped call that fails without a response on its first k attempts
\* (k <= 2) is not given up; when attempt k+1 succeeds, withRetry returns
\* after exactly k+1 attempts and its caller observes one result, the one of
\* the attempt that succeeded.
C17_RetryThenSuccess ==
    /\ ( /\ call.phase = "thrown"
         /\ \A i \in 1..Len(call.errors) : call.errors[i] = NetworkError )
          => Len(call.errors) = 3
    /\ call.phase = "returned" =>
          /\ call.attempts = Len(call.errors) + 1
          /\ call.result = call.response
          /\ call.result \in Results
          /\ call.error = NoError
          /\ outcome = Observed(call.op, NoError)

C17_Witness ==
    /\ call.phase = "returned"
    /\ call.errors = << NetworkError, NetworkError >>
    /\ call.attempts = 3
    /\ call.result = "d2"

\* C18: a wrapped call that is answered 401 is thrown at once, with no retry
\* (a single attempt when the first answer is the 401), and the cookie is
\* removed exactly once.
C18_UnauthorizedNoRetry ==
    (\E i \in 1..Len(call.errors) : call.errors[i].status = 401) =>
        /\ call.phase = "thrown"
        /\ Last(call.errors).status = 401
        /\ call.errors[1].status = 401 => call.attempts = 1
        /\ call.removed = 1
        /\ cookie = NoCookie

C18_Witness ==
    /\ call.phase = "thrown"
    /\ Len(call.errors) = 1
    /\ call.errors[1].status = 401
    /\ call.removed = 1
    /\ reloadPending

\* C19: what withRetry throws is the error of the last attempt, as it was
\* caught, also when the budget is used up.
C19_ThrowsLastError ==
    call.phase = "thrown" =>
        /\ call.error = Last(call.errors)
        /\ outcome = Observed(call.op, Last(call.errors))

C19_Witness ==
    /\ call.phase = "thrown"
    /\ call.attempts = 3
    /\ call.errors = << ServerError, ServerError, NetworkError >>
    /\ call.error = NetworkError

\* C20: no wait precedes the first attempt; the first wait is 1000 ms and
\* each later one is 1.5 times the one before, so the waits increase; a
\* failure that is not retried (the last one, or a non-retryable one) is
\* followed by no wait.
C20_Backoff ==
    /\ call.phase \in {"attempt", "returned", "thrown"} =>
          Len(call.waits) = call.attempts - 1
    /\ call.phase = "waiting" => Len(call.waits) = call.attempts
    /\ call.phase = "thrown" => Len(call.waits) = Len(call.errors) - 1
    /\ Len(call.waits) >= 1 => call.waits[1] = 1000
    /\ \A i \in 2..Len(call.waits) :
          /\ 2 * call.waits[i] = 3 * call.waits[i - 1]
          /\ call.waits[i] > call.waits[i - 1]

C20_Witness ==
    call.phase = "thrown" /\ call.waits = << 1000, 1500 >>

----------------------------------------------------------------------------
(* Properties of the session manager, continued *)

\* C22: updateUserProfile changes at most the name, email and phone of the
\* session and leaves its id and role, the cookie and `loading` as they
\* were; it sends no request; a null session stays null.
C22_UpdateProfileFrame ==
    [][ outcome'.op = "updateUserProfile"
          => /\ cookie' = cookie
             /\ loading' = loading
             /\ sent' = NoRequest
             /\ inflight' = inflight
             /\ ~isAuthenticated => user' = user
             /\ isAuthenticated =>
                   /\ user'.id = user.id
                   /\ user'.role = user.role
                   /\ \E data \in ProfileInputs :
                         user' = [user EXCEPT !.name = data.name,
                                              !.email = data.email,
                                              !.phone = data.phone] ]_vars

C22_Witness ==
    /\ outcome.op = "updateUserProfile"
    /\ isAuthenticated
    /\ user.email = "e2"
    /\ user.phone = "p1"
    /\ user.role = "admin"
    /\ TokenHeld

\* C26: when a login or register has resolved while the startup fetch was
\* in flight and the session is the account of the token in the cookie
\* store, the answer of the startup fetch leaves it so.
C26_LateStartupAnswer ==
    [][ ( /\ reply'.op = "me" /\ reply'.ok
          /\ authDone
          /\ isAuthenticated /\ TokenHeld
          /\ user.id = Owner(CookiesGet(cookie)) )
          => ( /\ isAuthenticatedOf(user')
               /\ user'.id = Owner(CookiesGet(cookie')) ) ]_vars

----------------------------------------------------------------------------
(* Properties of the bookings pages *)

\* The status updates of the page that have not resolved.
UpdateCalls == { c \in BagToSet(calls) : c.op = "adminUpdateBookingStatus" }

UpdatesInFlight == BagCardinality([c \in UpdateCalls |-> calls[c]])

\* Call c resolves in this step, on the page that started it.
Resolves(c) == calls' = Resolved(c) /\ c.stage = "answered" /\ page'.view = page.view

\* C21: when a call is answered 400, or any 4xx other than 401, with a body
\* message m, the message shown to the user is m. Stated of the toast of
\* handleStatusChange.
C21_MessageVerbatim ==
    (toast.status \in {400, 403, 404} /\ toast.message # Absent)
        => toast.text = toast.message

C27_CancelNeedsConfirmation ==
    [][ /\ \A id \in BookingIds :
              LET c == PageCall("adminUpdateBookingStatus", id, "cancelled",
                                RequestInterceptor(cookie))
              IN  calls' = Started(c) => page.showCancelConfirm = id
        /\ ( /\ page'.showCancelConfirm # page.showCancelConfirm
             /\ page'.view = page.view
             /\ \/ page'.showCancelConfirm # NoBooking
                \/ page'.updatingStatus = page.updatingStatus )
           => calls' = calls
      ]_vars

C27_Witness ==
    /\ page.showCancelConfirm = NoBooking
    /\ page.updatingStatus
    /\ \E c \in UpdateCalls : c.status = "cancelled" /\ c.id = "b2" /\ c.stage = "sent"
    /\ page.bookings["b2"] = "confirmed"

\* C29: on the Dashboard a booking whose deleteBooking call has succeeded is
\* not in the local list again.
C29_DeletedStaysOut ==
    page.view = "list" => \A b \in page.deleted : page.bookings[b] = Gone

\* C30: a page has at most one status update in progress; an update is
\* started only while updatingStatus is false, and the step in which an
\* update resolves, with a 2xx answer or with an error, leaves
\* updatingStatus false.
C30_OneUpdateAtATime ==
    /\ [](UpdatesInFlight <= 1)
    /\ [][ /\ UpdatesInFlight' > UpdatesInFlight
                 => ~page.updatingStatus /\ page'.updatingStatus
           /\ \A c \in UpdateCalls : Resolves(c) => ~page'.updatingStatus
         ]_vars

C30_Witness ==
    /\ page.view = "details"
    /\ ~page.updatingStatus
    /\ toast.status = 404
    /\ UpdatesInFlight = 0
    /\ BagCardinality(calls) = 1

----------------------------------------------------------------------------
(* Properties of the new-booking form *)

Transient(e) == e = NetworkError \/ e = ServerError

\* C24: a createBooking call all of whose attempts fail without an answer or
\* with a 500 is thrown after exactly 3 attempts, every attempt sends the
\* write request again, and the server has created the booking at most once
\* per attempt (3 times when it created it before each 500).
C24_WritesAreRetried ==
    /\ []( ( /\ call.op = "createBooking"
              /\ call.phase = "thrown"
              /\ \A i \in 1..Len(call.errors) : Transient(call.errors[i]) )
            => call.attempts = 3 /\ Len(call.errors) = 3 )
    /\ [](call.op = "createBooking" => server.applied <= call.attempts)
    /\ [][ (call'.op = "createBooking" /\ call'.attempts = call.attempts + 1)
              => /\ sent' = Request("createBooking", RequestInterceptor(cookie))
                 /\ inflight' = Send(sent') ]_vars

C24_Witness ==
    /\ call.op = "createBooking"
    /\ call.phase = "thrown"
    /\ call.errors = << ServerError, ServerError, ServerError >>
    /\ call.attempts = 3
    /\ server.applied = 3

\* C25 as stated: while the first createBooking call is unresolved the form
\* can be submitted again.
C25_SecondSubmitSent == form.unresolved = 1 => ENABLED handleSubmit

\* C25, amended: the page has at most one createBooking call unresolved;
\* while it is unresolved `loading` is true and the form cannot be submitted.
C25_SubmitGuarded ==
    /\ form.unresolved <= 1
    /\ form.unresolved = 1 => (form.loading /\ ~ENABLED handleSubmit)
    /\ (pathname = FormPath /\ form.unresolved = 0) => ~form.loading

C25_Witness ==
    /\ form.unresolved = 1
    /\ form.loading
    /\ call.phase = "waiting"
    /\ call.attempts = 2
    /\ server.applied = 1

----------------------------------------------------------------------------
(* Properties of the user management *)

\* C28: no delete-user request carries the id of the logged-in user; with
\* the modal open for that id, the confirm button shows the rejection,
\* closes the modal, and leaves the user list and the requests as they are.
C28_NoSelfDelete ==
    /\ [](\A c \in BagToSet(calls) : c.op = "deleteUser" => c.id # user.id)
    /\ [][ ( /\ ModalShown
             /\ Trim(admin.userToDelete) = user.id
             /\ admin' # admin
             /\ ~reloadPending' )
           => /\ ~admin'.showDeleteModal
              /\ admin'.userToDelete = NoUser
              /\ admin'.users = admin.users
              /\ calls' = calls ]_vars

C28_Witness ==
    /\ toast.text = "You cannot delete your own admin account"
    /\ ~admin.showDeleteModal
    /\ admin.userToDelete = NoUser
    /\ admin.users[" u2 "] = "customer"
    /\ admin.users["u1"] = "customer"

====
